---- MODULE Spec2Model ----
(***************************************************************************)
(* A model of git_repo.py: the GitRepoManager class, interactive_mode and  *)
(* main.  One process (one command-line run) is active at a time; the      *)
(* filesystem and the repository owned by the external git binary persist  *)
(* from one run to the next.                                               *)
(*                                                                         *)
(* The external tool is the environment.  Each invocation either returns   *)
(* zero or nonzero, chosen nondeterministically; it can return zero only   *)
(* when git itself could (a repository is there, the remote exists, ...),  *)
(* and on success it has git's effect on the part of the repository the    *)
(* model keeps: the .git entry, the checked-out branch and the remotes.    *)
(***************************************************************************)
EXTENDS Integers, Sequences, FiniteSets, TLC

\* ------------------------------------------------------------------ bounds
MaxLen == 2          \* longest tracked-file list

\* ------------------------------------------------------------ value spaces
RepoPath == "/r"
FileNames == {"a.txt", "b.conf"}
None == "None"
Branches == {"main", "dev"}
GitDefaultBranch == "master"
RemoteNames == {"origin", "up"}
RemoteUrls == {"u1", "u2"}
Messages == {None, "init"}

\* os.path.join(self.repo_path, file_name)
JoinPath(p, n) ==
  CASE n = "a.txt" -> "/r/a.txt"
    [] n = "b.conf" -> "/r/b.conf"
    [] n = ".git" -> "/r/.git"

GitDir == JoinPath(RepoPath, ".git")
FilePaths == {JoinPath(RepoPath, n) : n \in FileNames}
Paths == {RepoPath, GitDir} \cup FilePaths

\* What a path holds: nothing, a zero-byte file, a file with content, or a
\* directory.
Contents == {"absent", "empty", "data", "dir"}

\* Tracked-file lists: ordered, duplicates permitted.
SeqsUpTo(S, n) == UNION {[1..k -> S] : k \in 0..n}
TrackedLists == SeqsUpTo(FileNames, MaxLen)

\* ------------------------------------------------------------------ state
VARIABLES
  fs,          \* the filesystem: what each path holds
  head,        \* the branch checked out in the repository ("none": no repository)
  remotes,     \* the repository's remotes
  tracked,     \* the tracked-file list the caller passes in every run
  cmd,         \* the subcommand of the current run
  args,        \* its operation-specific arguments
  installed,   \* whether the git binary can be executed in the current run
  self,        \* the GitRepoManager of the current run
  ctor,        \* the arguments self was constructed with
  pc,          \* the position of the current run
  exitCode,    \* the exit status, once pc = "exited"
  lastOp,      \* the method executed last in the current run, with its arguments
  lastCalls,   \* the tool invocations that method issued, with their outcomes
  lastWrites,  \* the creations that method attempted, with their outcomes
  errLogged,   \* logging.error was called in the current run
  crashed,     \* the current run ended in an uncaught exception
  stepsDone,   \* the bootstrap methods that returned in the current run
  booted,      \* some earlier or current run completed the bootstrap sequence
  lastUrl      \* per remote name, the URL of the latest successful add_remote

vars == <<fs, head, remotes, tracked, cmd, args, installed, self, ctor, pc,
          exitCode, lastOp, lastCalls, lastWrites, errLogged, crashed,
          stepsDone, booted, lastUrl>>

\* ------------------------------------------------------------- filesystem
Exists(f, p) == f[p] # "absent"          \* os.path.exists
IsDir(f, p) == f[p] = "dir"              \* os.path.isdir

\* open(p, 'w') can succeed only inside an existing directory and not on a
\* directory; it leaves a zero-byte file.
CanOpenW(f, p) == f[RepoPath] = "dir" /\ f[p] # "dir"
OpenW(f, p) == [f EXCEPT ![p] = "empty"]

\* os.makedirs(p)
MakeDirs(f, p) == [f EXCEPT ![p] = "dir"]

\* ------------------------------------------------------ the external tool
\* git finds a repository at the path: a .git directory, or a .git file
\* that points to one (linked worktree, submodule).
GitSeesRepo(f) == f[RepoPath] = "dir" /\ f[GitDir] \in {"dir", "data"}

\* git init <path> can succeed unless the path is a file or .git is a
\* file that is no gitfile.
GitInitCan(f) == f[RepoPath] # "data" /\ f[RepoPath] # "empty" /\ f[GitDir] # "empty"
GitInitFs(f) ==
  IF f[GitDir] = "absent"
  THEN [f EXCEPT ![RepoPath] = "dir", ![GitDir] = "dir"]
  ELSE f
GitInitHead(f, h) == IF f[GitDir] = "absent" THEN GitDefaultBranch ELSE h

\* git checkout -b <b> right after git init: it can succeed in the fresh
\* repository, and in one that was there unless b is the branch checked out
\* (which exists).
GitCheckoutNewCan(f, h, b) == f[GitDir] = "absent" \/ b # h

\* The remotes are a list of entries, in the order "git remote" prints
\* them: sorted by name.
RemoteHas(rs, n) == \E i \in 1..Len(rs) : rs[i].name = n
NameBefore(a, b) == a = "origin" /\ b = "up"
RemoteAdd(rs, n, u) ==
  SelectSeq(rs, LAMBDA e : NameBefore(e.name, n)) \o <<[name |-> n, url |-> u]>>
    \o SelectSeq(rs, LAMBDA e : ~NameBefore(e.name, n))
RemoteSetUrl(rs, n, u) ==
  [i \in 1..Len(rs) |-> IF rs[i].name = n THEN [name |-> n, url |-> u] ELSE rs[i]]
\* Output of "git remote": one name per line.
RECURSIVE RemoteOutput(_)
RemoteOutput(rs) ==
  IF rs = <<>> THEN <<>> ELSE <<Head(rs).name, "\n">> \o RemoteOutput(Tail(rs))

\* Outcomes of one invocation: "ok" (returned zero), "fail" (returned
\* nonzero: CalledProcessError), "missing" (no git binary:
\* FileNotFoundError).
Outcomes(inst, can) ==
  IF ~inst THEN {"missing"}
  ELSE IF can THEN {"ok", "fail"} ELSE {"fail"}

\* --------------------------------------------------- argument templates
ArgvVersion == <<"git", "--version">>
ArgvInit == <<"git", "init", RepoPath>>
ArgvCheckoutNew(b) == <<"git", "-C", RepoPath, "checkout", "-b", b>>
ArgvAdd(p) == <<"git", "-C", RepoPath, "add", p>>
ArgvCommit(m) == <<"git", "-C", RepoPath, "commit", "-m", m>>
ArgvStatus == <<"git", "-C", RepoPath, "status">>
ArgvPush(r, b) == <<"git", "-C", RepoPath, "push", r, b>>
ArgvLog == <<"git", "-C", RepoPath, "log", "--oneline">>
ArgvDiff == <<"git", "-C", RepoPath, "diff">>
ArgvBranch == <<"git", "-C", RepoPath, "branch">>
ArgvCheckoutCreate(b) == <<"git", "-C", RepoPath, "checkout", "-b", b>>
ArgvCheckout(b) == <<"git", "-C", RepoPath, "checkout", b>>
ArgvRemote == <<"git", "-C", RepoPath, "remote">>
ArgvRemoteSetUrl(n, u) == <<"git", "-C", RepoPath, "remote", "set-url", n, u>>
ArgvRemoteAdd(n, u) == <<"git", "-C", RepoPath, "remote", "add", n, u>>

\* ------------------------------------------------------------ the methods
\* One tool invocation with its outcome, one creation attempt with its
\* outcome.
Call(argv, o) == [argv |-> argv, rc |-> o]
Write(p, o) == [path |-> p, rc |-> o]

\* A method's result: the filesystem, checked-out branch and remotes it
\* leaves, the tool invocations it issued, the creations it attempted, and
\* how it ended: "ok" (returned), "exit1" (logging.error then sys.exit(1))
\* or "crash" (an exception no handler catches: traceback, exit status 1).
Result(f, h, rs, calls, writes, status) ==
  [fs |-> f, head |-> h, remotes |-> rs, calls |-> calls, writes |-> writes,
   status |-> status]

\* check_git_installed: CalledProcessError and FileNotFoundError are caught.
check_git_installed(f, h, rs, inst) ==
  {Result(f, h, rs, <<Call(ArgvVersion, o)>>, <<>>, IF o = "ok" THEN "ok" ELSE "exit1") :
      o \in Outcomes(inst, TRUE)}

\* ensure_repo_path
ensure_repo_path(f, h, rs) ==
  IF ~Exists(f, RepoPath)
  THEN {Result(MakeDirs(f, RepoPath), h, rs, <<>>, <<Write(RepoPath, "ok")>>, "ok"),
        Result(f, h, rs, <<>>, <<Write(RepoPath, "fail")>>, "exit1")}
  ELSE {Result(f, h, rs, <<>>, <<>>, "ok")}

\* Variant: the file is opened for writing whether it exists or not.
NeedsCreateAlways(f, p) == TRUE

\* Variant: the test is inverted.
NeedsCreateInverted(f, p) == Exists(f, p)

\* The test of line 93 that decides whether a tracked file is created.
NeedsCreate(f, p) == ~Exists(f, p)

\* The loop of ensure_tracked_files from position i on; the creation at
\* position failAt fails (0: none fails for an outside reason).
RECURSIVE EnsureFrom(_, _, _, _)
EnsureFrom(f, tf, i, failAt) ==
  IF i > Len(tf) THEN [fs |-> f, writes |-> <<>>, status |-> "ok"]
  ELSE LET p == JoinPath(RepoPath, tf[i]) IN
    IF NeedsCreate(f, p)
    THEN IF i = failAt \/ ~CanOpenW(f, p)
         THEN [fs |-> f, writes |-> <<Write(p, "fail")>>, status |-> "exit1"]
         ELSE LET r == EnsureFrom(OpenW(f, p), tf, i + 1, failAt)
              IN [r EXCEPT !.writes = <<Write(p, "ok")>> \o @]
    ELSE EnsureFrom(f, tf, i + 1, failAt)

\* ensure_tracked_files
ensure_tracked_files(f, h, rs, tf) ==
  {LET r == EnsureFrom(f, tf, 1, k)
   IN Result(r.fs, h, rs, <<>>, r.writes, r.status) : k \in 0..Len(tf)}

\* Variant: os.path.isfile in place of os.path.isdir.
is_git_repo_isfile(f) == f[GitDir] \in {"empty", "data"}

\* is_git_repo
is_git_repo(f) == IsDir(f, GitDir)

\* initialize_repo: only CalledProcessError is caught.
initialize_repo(f, h, rs, inst, branch) ==
  IF ~is_git_repo(f)
  THEN UNION {
    IF o1 = "missing" THEN {Result(f, h, rs, <<Call(ArgvInit, o1)>>, <<>>, "crash")}
    ELSE IF o1 = "fail" THEN {Result(f, h, rs, <<Call(ArgvInit, o1)>>, <<>>, "exit1")}
    ELSE LET f1 == GitInitFs(f)
             h1 == GitInitHead(f, h)
         IN {Result(f1, IF o2 = "ok" THEN branch ELSE h1, rs,
                    <<Call(ArgvInit, o1), Call(ArgvCheckoutNew(branch), o2)>>, <<>>,
                    IF o2 = "ok" THEN "ok" ELSE "exit1") :
               o2 \in Outcomes(inst, GitCheckoutNewCan(f, h, branch))}
    : o1 \in Outcomes(inst, GitInitCan(f))}
  ELSE {Result(f, h, rs, <<>>, <<>>, "ok")}

\* git add <path> can succeed on an existing path of a repository.
GitAddCan(f, p) == GitSeesRepo(f) /\ Exists(f, p)

\* How a method ends on an invocation's outcome when its try block catches
\* CalledProcessError only.
StatusOf(o) == CASE o = "ok" -> "ok" [] o = "fail" -> "exit1" [] o = "missing" -> "crash"

\* Variant: the loop goes on to the next file after a failed invocation.
RECURSIVE AddFromContinue(_, _, _, _, _)
AddFromContinue(f, tf, i, failAt, inst) ==
  IF i > Len(tf) THEN [calls |-> <<>>, status |-> "ok"]
  ELSE LET p == JoinPath(RepoPath, tf[i])
           o == IF ~inst THEN "missing"
                ELSE IF i = failAt \/ ~GitAddCan(f, p) THEN "fail" ELSE "ok"
           r == AddFromContinue(f, tf, i + 1, failAt, inst)
       IN IF o = "missing" THEN [calls |-> <<Call(ArgvAdd(p), o)>>, status |-> "crash"]
          ELSE [calls |-> <<Call(ArgvAdd(p), o)>> \o r.calls,
                status |-> IF o = "ok" THEN r.status ELSE "exit1"]

\* The loop of add_files from position i on; the invocation at position
\* failAt returns nonzero (0: none does for an outside reason).
RECURSIVE AddFrom(_, _, _, _, _)
AddFrom(f, tf, i, failAt, inst) ==
  IF i > Len(tf) THEN [calls |-> <<>>, status |-> "ok"]
  ELSE LET p == JoinPath(RepoPath, tf[i])
           o == IF ~inst THEN "missing"
                ELSE IF i = failAt \/ ~GitAddCan(f, p) THEN "fail" ELSE "ok"
       IN IF o # "ok" THEN [calls |-> <<Call(ArgvAdd(p), o)>>, status |-> StatusOf(o)]
          ELSE LET r == AddFrom(f, tf, i + 1, failAt, inst)
               IN [r EXCEPT !.calls = <<Call(ArgvAdd(p), o)>> \o @]

\* add_files
add_files(f, h, rs, inst, tf) ==
  {LET r == AddFrom(f, tf, 1, k, inst)
   IN Result(f, h, rs, r.calls, <<>>, r.status) : k \in 0..Len(tf)}

\* The message commit_changes synthesises when none is given
\* ("Update tracked files on <timestamp>").
DefaultMessage == "Update tracked files on NOW"

\* commit_changes
commit_changes(f, h, rs, inst, msg) ==
  LET m == IF msg = None THEN DefaultMessage ELSE msg
  IN {Result(f, h, rs, <<Call(ArgvCommit(m), o)>>, <<>>, StatusOf(o)) :
        o \in Outcomes(inst, GitSeesRepo(f))}

\* check_status
check_status(f, h, rs, inst) ==
  {Result(f, h, rs, <<Call(ArgvStatus, o)>>, <<>>, StatusOf(o)) :
      o \in Outcomes(inst, GitSeesRepo(f))}

\* Variant: the default is the branch checked out.
PushBranchHead(selfBranch, branch) == IF branch = None THEN head ELSE branch

\* The branch push_to_remote pushes (lines 178-179).
PushBranch(selfBranch, branch) == IF branch = None THEN selfBranch ELSE branch

\* push_to_remote
push_to_remote(f, h, rs, inst, selfBranch, remote, branch) ==
  {Result(f, h, rs, <<Call(ArgvPush(remote, PushBranch(selfBranch, branch)), o)>>, <<>>,
          StatusOf(o)) :
      o \in Outcomes(inst, GitSeesRepo(f) /\ RemoteHas(rs, remote))}

\* log_history
log_history(f, h, rs, inst) ==
  {Result(f, h, rs, <<Call(ArgvLog, o)>>, <<>>, StatusOf(o)) :
      o \in Outcomes(inst, GitSeesRepo(f))}

\* diff_files
diff_files(f, h, rs, inst) ==
  {Result(f, h, rs, <<Call(ArgvDiff, o)>>, <<>>, StatusOf(o)) :
      o \in Outcomes(inst, GitSeesRepo(f))}

\* list_branches
list_branches(f, h, rs, inst) ==
  {Result(f, h, rs, <<Call(ArgvBranch, o)>>, <<>>, StatusOf(o)) :
      o \in Outcomes(inst, GitSeesRepo(f))}

\* switch_branch
switch_branch(f, h, rs, inst, branch) ==
  {Result(f, IF o = "ok" THEN branch ELSE h, rs, <<Call(ArgvCheckout(branch), o)>>, <<>>,
          StatusOf(o)) :
      o \in Outcomes(inst, GitSeesRepo(f))}

\* existing.decode().split(): the whitespace-separated words of the output
SplitWords(out) == SelectSeq(out, LAMBDA w : w # "\n" /\ w # " ")

\* Variant: the name is compared with the first word only.
RemotePresentFirst(name, words) == Len(words) > 0 /\ words[1] = name

\* remote_name in remotes (line 245)
RemotePresent(name, words) == \E i \in 1..Len(words) : words[i] = name

\* add_remote
add_remote(f, h, rs, inst, name, url) ==
  UNION {
    IF o1 # "ok" THEN {Result(f, h, rs, <<Call(ArgvRemote, o1)>>, <<>>, StatusOf(o1))}
    ELSE LET words == SplitWords(RemoteOutput(rs)) IN
      IF RemotePresent(name, words)
      THEN {Result(f, h, IF o2 = "ok" THEN RemoteSetUrl(rs, name, url) ELSE rs,
                   <<Call(ArgvRemote, o1), Call(ArgvRemoteSetUrl(name, url), o2)>>, <<>>,
                   StatusOf(o2)) :
              o2 \in Outcomes(inst, RemoteHas(rs, name))}
      ELSE {Result(f, h, IF o2 = "ok" THEN RemoteAdd(rs, name, url) ELSE rs,
                   <<Call(ArgvRemote, o1), Call(ArgvRemoteAdd(name, url), o2)>>, <<>>,
                   StatusOf(o2)) :
              o2 \in Outcomes(inst, ~RemoteHas(rs, name))}
    : o1 \in Outcomes(inst, GitSeesRepo(f))}

Commands == {"interactive", "init", "add", "commit", "status", "push", "log",
             "diff", "list-branches", "switch-branch", "add-remote"}

NoOp == [op |-> "none", a1 |-> "-", a2 |-> "-"]

\* The order of the four bootstrap calls (lines 267-270 and 396-399).
BootOrder == <<"check_git_installed", "ensure_repo_path", "ensure_tracked_files",
               "initialize_repo">>
BootSteps == {BootOrder[i] : i \in 1..Len(BootOrder)}

\* Variant: initialize_repo is left out of the sequence.
AfterSkipInit(c, p) ==
  IF p \in BootSteps
  THEN LET i == CHOOSE j \in 1..Len(BootOrder) : BootOrder[j] = p
       IN IF i < Len(BootOrder) - 1 THEN BootOrder[i + 1]
          ELSE IF c = "interactive" THEN "menu" ELSE "exited"
  ELSE IF p = "menu" THEN "menu" ELSE "exited"

\* Where a run goes when the method at position p returns.
After(c, p) ==
  IF p \in BootSteps
  THEN LET i == CHOOSE j \in 1..Len(BootOrder) : BootOrder[j] = p
       IN IF i < Len(BootOrder) THEN BootOrder[i + 1]
          ELSE IF c = "interactive" THEN "menu" ELSE "exited"
  ELSE IF p = "menu" THEN "menu" ELSE "exited"

\* The first position of a run of subcommand c (main, lines 392-426).
Entry(c) == IF c \in {"interactive", "init"} THEN BootOrder[1] ELSE "op"

\* The remote name when the user gives none: the default of --remote
\* (line 355) and of the menu prompt (line 295).
RemoteOrDefault(r) == IF r = None THEN "origin" ELSE r

\* The manager main and interactive_mode construct for subcommand c.
Construct(c, tf, b) ==
  [tracked_files |-> IF c \in {"interactive", "init", "add"} THEN tf ELSE <<>>,
   branch |-> IF c \in {"interactive", "init"} THEN b ELSE "main"]

\* The filesystems a run can find: entries live inside an existing
\* directory only; a tracked file is absent or a regular file; .git is
\* absent, a directory, or a file with content (as in a linked worktree or
\* a submodule checkout).
InitFs ==
  {f \in [Paths -> Contents] :
     /\ f[RepoPath] # "empty"
     /\ f[RepoPath] # "dir" => \A p \in Paths \ {RepoPath} : f[p] = "absent"
     /\ \A p \in FilePaths : f[p] # "dir"
     /\ f[GitDir] # "empty"}

Init ==
  /\ fs \in InitFs
  /\ head \in (IF GitSeesRepo(fs) THEN Branches ELSE {"none"})
  /\ remotes = <<>>
  /\ tracked \in TrackedLists
  /\ cmd = "none"
  /\ args = NoOp
  /\ installed = TRUE
  /\ self = [tracked_files |-> <<>>, branch |-> "main"]
  /\ ctor = self
  /\ pc = "idle"
  /\ exitCode = 0
  /\ lastOp = NoOp
  /\ lastCalls = <<>>
  /\ lastWrites = <<>>
  /\ errLogged = FALSE
  /\ crashed = FALSE
  /\ stepsDone = <<>>
  /\ booted = FALSE
  /\ lastUrl = [n \in RemoteNames |-> None]

\* A process starts: main parses the command line and constructs the manager.
StartRun ==
  /\ pc = "idle"
  /\ \E c \in Commands, b \in Branches, i \in BOOLEAN :
       /\ cmd' = c
       /\ installed' = i
       /\ self' = Construct(c, tracked, b)
       /\ ctor' = self'
       /\ pc' = Entry(c)
       /\ \E a \in
            CASE c = "commit" -> {[op |-> c, a1 |-> m, a2 |-> "-"] : m \in Messages}
              [] c = "push" -> {[op |-> c, a1 |-> r, a2 |-> pb] :
                                  r \in RemoteNames \cup {None},
                                  pb \in Branches \cup {None}}
              [] c = "switch-branch" -> {[op |-> c, a1 |-> sb, a2 |-> "-"] : sb \in Branches}
              [] c = "add-remote" -> {[op |-> c, a1 |-> n, a2 |-> u] :
                                        n \in RemoteNames, u \in RemoteUrls}
              [] OTHER -> {[op |-> c, a1 |-> "-", a2 |-> "-"]} :
            args' = a
  /\ UNCHANGED <<fs, head, remotes, tracked, exitCode, lastOp, lastCalls,
                 lastWrites, errLogged, crashed, stepsDone, booted, lastUrl>>

\* The current run executes one method, with one of the results R.
Step(R, op, a1, a2) ==
  \E r \in R :
    /\ fs' = r.fs
    /\ head' = r.head
    /\ remotes' = r.remotes
    /\ lastOp' = [op |-> op, a1 |-> a1, a2 |-> a2]
    /\ lastCalls' = r.calls
    /\ lastWrites' = r.writes
    /\ errLogged' = (errLogged \/ r.status = "exit1")
    /\ crashed' = (r.status = "crash")
    /\ pc' = IF r.status = "ok" THEN After(cmd, pc) ELSE "exited"
    /\ exitCode' = IF r.status = "ok" THEN 0 ELSE 1
    /\ stepsDone' = IF pc \in BootSteps /\ r.status = "ok"
                    THEN Append(stepsDone, op) ELSE stepsDone
    /\ booted' = (booted \/ (op = "initialize_repo" /\ r.status = "ok"))
    /\ lastUrl' = IF op = "add_remote" /\ r.status = "ok"
                  THEN [lastUrl EXCEPT ![a1] = a2] ELSE lastUrl
    /\ UNCHANGED <<tracked, cmd, args, installed, self, ctor>>

\* The method is due: as the subcommand c of a one-shot run, or as a menu
\* selection of an interactive session.
Due(c) == (pc = "op" /\ cmd = c) \/ pc = "menu"

CheckGitInstalled ==
  /\ pc = "check_git_installed"
  /\ Step(check_git_installed(fs, head, remotes, installed), "check_git_installed", "-", "-")

EnsureRepoPath ==
  /\ pc = "ensure_repo_path"
  /\ Step(ensure_repo_path(fs, head, remotes), "ensure_repo_path", "-", "-")

EnsureTrackedFiles ==
  /\ pc = "ensure_tracked_files"
  /\ Step(ensure_tracked_files(fs, head, remotes, self.tracked_files),
          "ensure_tracked_files", "-", "-")

InitializeRepo ==
  /\ pc = "initialize_repo"
  /\ Step(initialize_repo(fs, head, remotes, installed, self.branch),
          "initialize_repo", "-", "-")

AddFiles ==
  /\ Due("add")
  /\ Step(add_files(fs, head, remotes, installed, self.tracked_files), "add_files", "-", "-")

CommitChanges ==
  /\ Due("commit")
  /\ \E m \in (IF pc = "op" THEN {args.a1} ELSE Messages) :
       Step(commit_changes(fs, head, remotes, installed, m), "commit_changes", m, "-")

CheckStatus ==
  /\ Due("status")
  /\ Step(check_status(fs, head, remotes, installed), "check_status", "-", "-")

\* main passes args.remote and args.branch; the menu passes the remote only.
\* r is the remote as the user gave it (None: not given).
PushToRemote ==
  /\ Due("push")
  /\ \E r \in (IF pc = "op" THEN {args.a1} ELSE RemoteNames \cup {None}),
        b \in (IF pc = "op" THEN {args.a2} ELSE {None}) :
       Step(push_to_remote(fs, head, remotes, installed, self.branch,
                           RemoteOrDefault(r), b),
            "push_to_remote", r, b)

LogHistory ==
  /\ Due("log")
  /\ Step(log_history(fs, head, remotes, installed), "log_history", "-", "-")

DiffFiles ==
  /\ Due("diff")
  /\ Step(diff_files(fs, head, remotes, installed), "diff_files", "-", "-")

ListBranches ==
  /\ Due("list-branches")
  /\ Step(list_branches(fs, head, remotes, installed), "list_branches", "-", "-")

SwitchBranch ==
  /\ Due("switch-branch")
  /\ \E b \in (IF pc = "op" THEN {args.a1} ELSE Branches) :
       Step(switch_branch(fs, head, remotes, installed, b), "switch_branch", b, "-")

AddRemote ==
  /\ Due("add-remote")
  /\ \E n \in (IF pc = "op" THEN {args.a1} ELSE RemoteNames),
        u \in (IF pc = "op" THEN {args.a2} ELSE RemoteUrls) :
       Step(add_remote(fs, head, remotes, installed, n, u), "add_remote", n, u)

\* A menu selection that calls no method: an invalid choice, choice 8 with
\* an empty branch name, choice 9 with an empty name or URL.
MenuNoOp ==
  /\ pc = "menu"
  /\ lastOp' = NoOp
  /\ lastCalls' = <<>>
  /\ lastWrites' = <<>>
  /\ UNCHANGED <<fs, head, remotes, tracked, cmd, args, installed, self, ctor, pc,
                 exitCode, errLogged, crashed, stepsDone, booted, lastUrl>>

\* Choice 0: the loop breaks, interactive_mode and main return.
MenuExit ==
  /\ pc = "menu"
  /\ pc' = "exited"
  /\ exitCode' = 0
  /\ lastOp' = NoOp
  /\ lastCalls' = <<>>
  /\ lastWrites' = <<>>
  /\ UNCHANGED <<fs, head, remotes, tracked, cmd, args, installed, self, ctor,
                 errLogged, crashed, stepsDone, booted, lastUrl>>

\* The process is gone; the filesystem and the repository stay.
Terminate ==
  /\ pc = "exited"
  /\ pc' = "idle"
  /\ cmd' = "none"
  /\ args' = NoOp
  /\ installed' = TRUE
  /\ self' = [tracked_files |-> <<>>, branch |-> "main"]
  /\ ctor' = self'
  /\ exitCode' = 0
  /\ lastOp' = NoOp
  /\ lastCalls' = <<>>
  /\ lastWrites' = <<>>
  /\ errLogged' = FALSE
  /\ crashed' = FALSE
  /\ stepsDone' = <<>>
  /\ UNCHANGED <<fs, head, remotes, tracked, booted, lastUrl>>

Next ==
  \/ StartRun
  \/ CheckGitInstalled
  \/ EnsureRepoPath
  \/ EnsureTrackedFiles
  \/ InitializeRepo
  \/ AddFiles
  \/ CommitChanges
  \/ CheckStatus
  \/ PushToRemote
  \/ LogHistory
  \/ DiffFiles
  \/ ListBranches
  \/ SwitchBranch
  \/ AddRemote
  \/ MenuNoOp
  \/ MenuExit
  \/ Terminate

Spec == Init /\ [][Next]_vars

\* ================================================================== claims
FourSteps == {"check_git_installed", "ensure_repo_path", "ensure_tracked_files",
              "initialize_repo"}
IsInitArgv(v) == Len(v) = 3 /\ v[2] = "init"
IsCheckoutNewArgv(v) == Len(v) = 6 /\ v[4] = "checkout" /\ v[5] = "-b"
IsRemoteSubArgv(v, sub) == Len(v) = 7 /\ v[4] = "remote" /\ v[5] = sub
Succeeded == pc # "exited" \/ exitCode = 0

\* C1: once the bootstrap sequence has completed successfully, a later run
\* of it with the same path and tracked-file list creates no directory and
\* no file, issues neither git init nor git checkout -b, and leaves the
\* filesystem and the repository as they were.
C1_BootstrapIdempotent ==
  [][(booted /\ pc \in FourSteps) =>
       /\ fs' = fs /\ head' = head /\ remotes' = remotes
       /\ lastWrites' = <<>>
       /\ \A i \in 1..Len(lastCalls') :
            ~IsInitArgv(lastCalls'[i].argv) /\ ~IsCheckoutNewArgv(lastCalls'[i].argv)]_vars

\* C2: ensure_tracked_files leaves every path that existed before the call
\* with the content it had, and every path it creates is a zero-byte file
\* at a tracked-file path.
C2_ExistingFilesUntouched ==
  [][pc = "ensure_tracked_files" =>
       \A p \in Paths :
         /\ fs[p] # "absent" => fs'[p] = fs[p]
         /\ (fs[p] = "absent" /\ fs'[p] # "absent") =>
              /\ fs'[p] = "empty"
              /\ \E i \in 1..Len(tracked) : p = JoinPath(RepoPath, tracked[i])]_vars

\* C2 witness: a list with a duplicate entry was served; the duplicated file
\* was created once and a file with content was there before and after.
C2_Witness ==
  /\ lastOp.op = "ensure_tracked_files"
  /\ Len(tracked) = 2 /\ tracked[1] = tracked[2]
  /\ Len(lastWrites) = 1 /\ lastWrites[1].rc = "ok"
  /\ \E p \in FilePaths : fs[p] = "data"

\* C3: once .git is a directory, initialize_repo issues no tool invocation
\* and changes nothing, whatever branch it is given; a .git directory never
\* goes away; and it comes into being in initialize_repo only.
C3_InitializedAbsorbing ==
  [][/\ (fs[GitDir] = "dir" /\ pc = "initialize_repo") =>
          (lastCalls' = <<>> /\ fs' = fs /\ head' = head /\ remotes' = remotes)
     /\ fs[GitDir] = "dir" => fs'[GitDir] = "dir"
     /\ (fs[GitDir] # "dir" /\ fs'[GitDir] = "dir") =>
          (pc = "initialize_repo" /\ lastOp'.op = "initialize_repo")]_vars

\* C3 witness: initialize_repo returned without an invocation on an existing
\* repository whose branch is not the branch supplied.
C3_Witness ==
  /\ lastOp.op = "initialize_repo"
  /\ lastCalls = <<>>
  /\ fs[GitDir] = "dir"
  /\ head # self.branch
  /\ Succeeded

\* C4: there is exactly one remote entry per name that a successful
\* add_remote has used, with the URL of the latest such call, and none for
\* any other name; add_remote on a name that is present issues set-url and
\* never add; on an absent name it issues exactly one add and leaves every
\* other remote as it was.
C4_RemotesUnique ==
  /\ [](\A n \in RemoteNames :
          LET E == {i \in 1..Len(remotes) : remotes[i].name = n}
          IN IF lastUrl[n] = None THEN E = {}
             ELSE Cardinality(E) = 1 /\ \A i \in E : remotes[i].url = lastUrl[n])
  /\ [][\A n \in RemoteNames :
          (lastOp'.op = "add_remote" /\ lastOp'.a1 = n /\ pc \in {"op", "menu"}) =>
            LET had == \E i \in 1..Len(remotes) : remotes[i].name = n
                adds == {i \in 1..Len(lastCalls') : IsRemoteSubArgv(lastCalls'[i].argv, "add")}
                sets == {i \in 1..Len(lastCalls') : IsRemoteSubArgv(lastCalls'[i].argv, "set-url")}
                ok == pc' # "exited" \/ exitCode' = 0
            IN /\ had => adds = {}
               /\ (had /\ ok) => Cardinality(sets) = 1
               /\ ~had => sets = {}
               /\ (~had /\ ok) => Cardinality(adds) = 1
               /\ \A i \in 1..Len(remotes) :
                    remotes[i].name # n => \E j \in 1..Len(remotes') : remotes'[j] = remotes[i]
               /\ Len(remotes') = Len(remotes) + (IF ~had /\ ok THEN 1 ELSE 0)]_vars

\* C4 witness: with two remotes configured, a successful add_remote on a
\* present name has replaced its URL through set-url.
C4_Witness ==
  /\ lastOp.op = "add_remote"
  /\ Succeeded
  /\ Len(remotes) = 2
  /\ Len(lastCalls) = 2
  /\ IsRemoteSubArgv(lastCalls[2].argv, "set-url")
  /\ \E i \in 1..2 : remotes[i].name = lastOp.a1 /\ remotes[i].url = lastOp.a2

\* C5 as claimed: after a successful bootstrap the directory exists, every
\* tracked file exists, and the directory is a repository on the requested
\* branch, whatever the path held before.
C5_OnRequestedBranch ==
  (lastOp.op = "initialize_repo" /\ Succeeded) =>
    /\ fs[RepoPath] = "dir"
    /\ \A i \in 1..Len(tracked) : fs[JoinPath(RepoPath, tracked[i])] # "absent"
    /\ fs[GitDir] \in {"dir", "data"}
    /\ head = ctor.branch

\* C5 amended: after a successful bootstrap the directory exists, every
\* tracked file exists and the directory is a repository; it is on the
\* requested branch when this run's initialize_repo ran init and
\* checkout -b itself.
C5_BootstrapPostcondition ==
  (lastOp.op = "initialize_repo" /\ Succeeded) =>
    /\ fs[RepoPath] = "dir"
    /\ \A i \in 1..Len(tracked) : fs[JoinPath(RepoPath, tracked[i])] # "absent"
    /\ fs[GitDir] \in {"dir", "data"}
    /\ lastCalls # <<>> => head = ctor.branch

\* C5 witness: a successful bootstrap that created the directory's two
\* tracked files and initialised the repository on the requested branch.
C5_Witness ==
  /\ lastOp.op = "initialize_repo"
  /\ Succeeded
  /\ Len(lastCalls) = 2
  /\ fs[GitDir] = "dir"
  /\ head = ctor.branch
  /\ tracked = <<"a.txt", "b.conf">>
  /\ fs["/r/a.txt"] = "empty" /\ fs["/r/b.conf"] = "empty"

\* C6: an invocation that does not return zero, or a creation that fails,
\* is the last thing its method does, and the run is then over with exit
\* status 1; add_files issues its invocations for a prefix of the tracked
\* list, in order, and the whole list unless one failed; once a run is
\* over nothing more is invoked or written; a run that ends with no such
\* failure has exit status 0.
C6_FailFast ==
  /\ [](/\ \A i \in 1..Len(lastCalls) :
             lastCalls[i].rc # "ok" =>
               (i = Len(lastCalls) /\ pc = "exited" /\ exitCode = 1)
        /\ \A i \in 1..Len(lastWrites) :
             lastWrites[i].rc # "ok" =>
               (i = Len(lastWrites) /\ pc = "exited" /\ exitCode = 1)
        /\ lastOp.op = "add_files" =>
             /\ Len(lastCalls) <= Len(self.tracked_files)
             /\ \A i \in 1..Len(lastCalls) :
                  lastCalls[i].argv =
                    <<"git", "-C", RepoPath, "add", JoinPath(RepoPath, self.tracked_files[i])>>
             /\ Len(lastCalls) < Len(self.tracked_files) =>
                  lastCalls[Len(lastCalls)].rc # "ok"
        /\ (/\ pc = "exited"
            /\ \A i \in 1..Len(lastCalls) : lastCalls[i].rc = "ok"
            /\ \A i \in 1..Len(lastWrites) : lastWrites[i].rc = "ok") => exitCode = 0)
  /\ [][pc = "exited" =>
          /\ fs' = fs /\ head' = head /\ remotes' = remotes
          /\ lastCalls' = <<>> /\ lastWrites' = <<>>]_vars

\* C6 witness: add_files ended the run at the first of two tracked files;
\* the second was not staged.
C6_Witness ==
  /\ lastOp.op = "add_files"
  /\ Len(self.tracked_files) = 2
  /\ Len(lastCalls) = 1
  /\ lastCalls[1].rc = "fail"
  /\ pc = "exited" /\ exitCode = 1

\* C7 as claimed: in every run in which the tool was invoked and is
\* missing, the error is logged at ERROR level and the exit status is
\* nonzero, and the run changes neither the filesystem nor the repository.
C7_ToolUnavailableReported ==
  /\ []((pc = "exited" /\ ~installed /\ lastCalls # <<>>) => (errLogged /\ exitCode # 0))
  /\ [][(~installed /\ pc \notin {"idle", "exited"}) =>
          (fs' = fs /\ head' = head /\ remotes' = remotes)]_vars

\* C8 as claimed: every operation of the table issues exactly one tool
\* invocation per call.
C8_OneInvocationPerCall ==
  lastOp.op \in {"check_git_installed", "initialize_repo", "add_files", "commit_changes",
                 "push_to_remote", "check_status", "log_history", "diff_files",
                 "list_branches", "switch_branch", "add_remote"}
    => Len(lastCalls) = 1

\* C8 amended: check_git_installed, commit, push, status, log, diff,
\* list_branches and switch_branch issue exactly one invocation of a fixed
\* template; initialize_repo issues none on a .git directory and otherwise
\* init followed, if init returned zero, by checkout -b; add_files issues one
\* add per tracked file, in order, up to the first that fails; add_remote
\* issues the remote query followed, if it returned zero, by exactly one of
\* set-url and add.
C8_InvocationTemplates ==
  LET n == Len(lastCalls)
      v(i) == lastCalls[i].argv
      rc(i) == lastCalls[i].rc
      op == lastOp.op
      G == <<"git", "-C", RepoPath>>
  IN /\ op = "check_git_installed" => (n = 1 /\ v(1) = <<"git", "--version">>)
     /\ op = "commit_changes" =>
          (n = 1 /\ Len(v(1)) = 6 /\ SubSeq(v(1), 1, 5) = G \o <<"commit", "-m">>
           /\ (lastOp.a1 # None => v(1)[6] = lastOp.a1))
     /\ op = "check_status" => (n = 1 /\ v(1) = G \o <<"status">>)
     /\ op = "log_history" => (n = 1 /\ v(1) = G \o <<"log", "--oneline">>)
     /\ op = "diff_files" => (n = 1 /\ v(1) = G \o <<"diff">>)
     /\ op = "list_branches" => (n = 1 /\ v(1) = G \o <<"branch">>)
     /\ op = "switch_branch" => (n = 1 /\ v(1) = G \o <<"checkout", lastOp.a1>>)
     /\ op = "push_to_remote" =>
          (n = 1 /\ Len(v(1)) = 6 /\ SubSeq(v(1), 1, 4) = G \o <<"push">>
           /\ (lastOp.a1 # None => v(1)[5] = lastOp.a1)
           /\ (lastOp.a2 # None => v(1)[6] = lastOp.a2))
     /\ op = "initialize_repo" =>
          /\ n \in 0..2
          /\ n = 0 => fs[GitDir] = "dir"
          /\ n >= 1 => v(1) = <<"git", "init", RepoPath>>
          /\ n = 1 => rc(1) # "ok"
          /\ n = 2 => (rc(1) = "ok" /\ v(2) = G \o <<"checkout", "-b", self.branch>>)
     /\ op = "add_files" =>
          /\ n <= Len(self.tracked_files)
          /\ \A i \in 1..n : v(i) = G \o <<"add", JoinPath(RepoPath, self.tracked_files[i])>>
          /\ \A i \in 1..n : i < n => rc(i) = "ok"
          /\ n < Len(self.tracked_files) => rc(n) # "ok"
     /\ op = "add_remote" =>
          /\ n \in 1..2
          /\ v(1) = G \o <<"remote">>
          /\ n = 1 => rc(1) # "ok"
          /\ n = 2 => /\ rc(1) = "ok"
                      /\ v(2) \in {G \o <<"remote", "set-url", lastOp.a1, lastOp.a2>>,
                                   G \o <<"remote", "add", lastOp.a1, lastOp.a2>>}
     /\ op \in {"ensure_repo_path", "ensure_tracked_files", "none"} => n = 0

\* C8 witness: add_remote returned after its two invocations.
C8_Witness ==
  /\ lastOp.op = "add_remote"
  /\ Len(lastCalls) = 2
  /\ Succeeded

\* C9: no method changes the manager's path, tracked files or branch; push
\* without a branch pushes the branch the manager was constructed with, and
\* to origin when no remote is given; the push subcommand without --branch
\* pushes main.
C9_ContextImmutable ==
  /\ [](self = ctor)
  /\ [][pc \notin {"idle", "exited"} => (self' = self /\ tracked' = tracked)]_vars
  /\ [](lastOp.op = "push_to_remote" =>
          /\ Len(lastCalls) = 1
          /\ lastOp.a2 = None => lastCalls[1].argv[6] = ctor.branch
          /\ lastOp.a1 = None => lastCalls[1].argv[5] = "origin"
          /\ (cmd = "push" /\ lastOp.a2 = None) => lastCalls[1].argv[6] = "main")

\* C9 witness: in an interactive session a push without a branch succeeded
\* while another branch than the manager's is checked out.
C9_Witness ==
  /\ cmd = "interactive"
  /\ lastOp.op = "push_to_remote"
  /\ lastOp.a2 = None
  /\ head \in Branches /\ head # ctor.branch
  /\ lastCalls[1].rc = "ok"

\* C10: the bootstrap methods that have returned in a run are a prefix of
\* check_git_installed, ensure_repo_path, ensure_tracked_files,
\* initialize_repo, each run after the one before returned; an interactive
\* session executes a pass-through operation only after all four returned.
C10_BootstrapOrder ==
  LET Order == <<"check_git_installed", "ensure_repo_path", "ensure_tracked_files",
                 "initialize_repo">>
      k == Len(stepsDone)
  IN /\ k <= 4 /\ stepsDone = SubSeq(Order, 1, k)
     /\ pc \in FourSteps => (cmd \in {"init", "interactive"} /\ k < 4 /\ pc = Order[k + 1])
     /\ lastOp.op \in FourSteps =>
          (cmd \in {"init", "interactive"}
           /\ IF Succeeded THEN k >= 1 /\ lastOp.op = Order[k]
              ELSE k < 4 /\ lastOp.op = Order[k + 1])
     /\ pc = "menu" => stepsDone = Order
     /\ (cmd = "init" /\ pc = "exited" /\ exitCode = 0) => stepsDone = Order
     /\ (cmd = "interactive" /\ lastOp.op \notin FourSteps \cup {"none"}) => stepsDone = Order

\* C10 witness: an interactive session has executed a pass-through operation.
C10_Witness ==
  /\ cmd = "interactive"
  /\ lastOp.op = "commit_changes"
  /\ stepsDone = <<"check_git_installed", "ensure_repo_path", "ensure_tracked_files",
                   "initialize_repo">>

\* C11 as claimed: whenever ensure_repo_path returns without ending the
\* run, the repository path is a directory, whatever the path held before.
C11_PathIsDirectory ==
  (lastOp.op = "ensure_repo_path" /\ Succeeded) => fs[RepoPath] = "dir"

====
